---- MODULE Spec2Model ----
(***************************************************************************)
(* The release command of the space CLI (package cmd: newCmdRelease's      *)
(* Run, selectRevision, release, getCreatingReleaseMsg) as a sequential    *)
(* state machine.  The remote client, the prompts and the log stream are   *)
(* collaborators: each call returns a nondeterministic result.             *)
(***************************************************************************)
EXTENDS Integers, Sequences, FiniteSets, TLC

\* ---- bounds of the model ------------------------------------------------
MaxRevs == 6            \* longest revision list GetRevisions returns
MaxLines == 2           \* longest log stream GetReleaseLogs returns
MaxIDLen == 2           \* longest project id stored
MaxIgnoreLen == 2       \* longest .gitignore (in tokens) found at the root

\* ---- input domains ------------------------------------------------------
Tags == {"a", "b"}
LogLines == {"l1", "l2"}
Complete == "complete"
Statuses == {"complete", "failed", "pending"}

\* ---- error values -------------------------------------------------------
Nil == "nil"
ErrNoAccessTokenFound == "auth.ErrNoAccessTokenFound"
ErrOther == "error"

NilRevision == [ID |-> 0, Tag |-> ""]

\* the revision lists the remote service can return: ids are unique, tags
\* need not be
RevisionLists ==
    UNION {{[i \in 1..n |-> [ID |-> i, Tag |-> f[i]]] : f \in [1..n -> Tags]}
              : n \in 0..MaxRevs}

LineSeqs == UNION {[1..n -> LogLines] : n \in 0..MaxLines}

\* ---- messages -----------------------------------------------------------
LoginInfo == "login guidance"
MsgNonInteractive ==
    "revision id or confirm flag must be provided in non-interactive mode"
MsgFailedGetRevisions == "Failed to get revisions"
MsgNoRevisions == "No revisions found"
MsgSelected == "Selected revision: "
MsgFailedCreate == "Failed to create release"
MsgLogsError == "Error (logs)"
MsgScanError == "Error (scan)"
MsgPromotionCheck == "Failed to check if release succeeded"
MsgLiftOff == "Lift off -- successfully created a new Release!"
MsgEdges == "Your Release is available globally on 5 Deta Edges"
MsgInstall == "Anyone can install their own copy of your app."
MsgListed == "Listed on Discovery for others to find!"
MsgReleaseFailed == "Failed to create release. Please try again!"

VARIABLES
    pc,                 \* position in Run / selectRevision / release
    exit,               \* "running", "exit0", "exit1" or "panic"
    interactive,        \* shared.IsOutputInteractive()
    idChanged,          \* cmd.Flags().Changed("id")
    ridChanged,         \* cmd.Flags().Changed("rid")
    confirmChanged,     \* cmd.Flags().Changed("confirm")
    listedRelease,      \* --listed
    useLatestRevision,  \* --confirm, or the answer to the confirm prompt
    revisionID,         \* id handed to release(): 0 until resolved
    revisions,          \* r.Revisions as fetched
    tags,               \* the options handed to choose.Run
    chooseCalls,        \* number of choose.Run invocations
    chosen,             \* index of the option the user picked, 0 if none
    revision,           \* selectRevision's first result
    err,                \* selectRevision's second result
    calls,              \* remote calls issued so far, in order
    log,                \* messages printed through shared.Logger
    stream,             \* content of the log stream
    scanned,            \* lines consumed from the stream
    stdout,             \* lines forwarded with fmt.Println
    opened,             \* GetReleaseLogs returned a handle
    closeCount,         \* number of readCloser.Close() calls
    scanErr,            \* scanner.Err()
    status,             \* r.Status of GetReleasePromotion, "" if none
    relErr,             \* release()'s result
    fetched,            \* GetRevisions returned a list (no error)
    createErr,          \* the error CreateRelease returned, "" before the call
    resolveFailure      \* the step of the resolution that failed, "none" if none

vars == <<pc, exit, interactive, idChanged, ridChanged, confirmChanged,
          listedRelease, useLatestRevision, revisionID, revisions, tags,
          chooseCalls, chosen, revision, err, calls, log, stream, scanned,
          stdout, opened, closeCount, scanErr, status, relErr, fetched,
          createErr, resolveFailure>>

flagVars == <<interactive, idChanged, ridChanged, confirmChanged, listedRelease>>
selVars == <<revisions, tags, chooseCalls, chosen, revision, err, fetched>>
relVars == <<stream, scanned, stdout, opened, closeCount, scanErr, status, relErr,
            createErr>>

\* ---- the runtime manager (internal/runtime/manager.go) -------------------
\* A file is [exists, data]; data is a sequence of characters or tokens.
VARIABLES
    mgr,                \* "none", or "ready" once NewManager returned a manager
    spaceDir,           \* the hidden directory <root>/.space exists
    metaFile,           \* <root>/.space/meta
    readmeFile,         \* <root>/.space/README
    gitignore,          \* <root>/.gitignore
    op,                 \* the operation called last
    ret,                \* what it returned: [meta, ok, err]
    opFault,            \* an I/O fault was injected into the last operation
    faulted,            \* an I/O fault was injected into some operation so far
    lastStored,         \* the record of the last StoreProjectMeta when it
                        \* succeeded, nil when it failed or none was made
    prevGitignore,      \* .gitignore as the last AddSpaceToGitignore found it
    adds,               \* an AddSpaceToGitignore has succeeded
    addsBefore,         \* ... before the operation called last
    storeIO             \* the errors of the two writes of the last
                        \* StoreProjectMeta: [note, meta]

mgrVars == <<mgr, spaceDir, metaFile, readmeFile, gitignore, op, ret, opFault,
             faulted, lastStored, prevGitignore, adds, addsBefore, storeIO>>

\* ---- pure helpers -------------------------------------------------------

\* fault variant: the negation of Changed("confirm") is dropped
NonInteractiveRejected_ConfirmGiven(inter, rid, confirm) == ~inter /\ ~rid /\ confirm

\* Run, line 33
NonInteractiveRejected(inter, rid, confirm) == ~inter /\ ~rid /\ ~confirm

\* getCreatingReleaseMsg
getCreatingReleaseMsg(listed, latest) ==
    "Creating a" \o (IF listed THEN " listed" ELSE "") \o " Release"
                 \o (IF latest THEN " with the latest Revision" ELSE "") \o " ..."

\* fault variant: the Unauthenticated branch of lines 95-97 is missing
GetRevisionsErrMsg_Generic(e) == MsgFailedGetRevisions

\* selectRevision, lines 95-101: the message printed for a fetch error
GetRevisionsErrMsg(e) ==
    IF e = ErrNoAccessTokenFound THEN LoginInfo ELSE MsgFailedGetRevisions

\* fault variant: the last entry is taken for the latest
LatestRevision_Last(revs) == revs[Len(revs)]

\* selectRevision, line 110
LatestRevision(revs) == revs[1]

WindowSize == 5

\* fault variant: the window is not truncated
Window_Untruncated(revs) == revs

\* selectRevision, lines 115-117
Window(revs) ==
    IF Len(revs) > WindowSize THEN SubSeq(revs, 1, WindowSize) ELSE revs

\* selectRevision, lines 120-123: the tags appended in iteration order
TagsOf(revs) == [i \in 1..Len(revs) |-> revs[i].Tag]

\* selectRevision, lines 119-121 and 133: revisionMap[tag]; a later entry
\* with the same tag overwrites an earlier one, a missing key yields nil
revisionMap(revs, tag) ==
    LET hits == {i \in 1..Len(revs) : revs[i].Tag = tag}
    IN  IF hits = {} THEN NilRevision
        ELSE revs[CHOOSE i \in hits : \A j \in hits : j <= i]

\* fault variant: the error of CreateRelease is ignored
CreateReleaseFailed_Ignored(e) == FALSE

\* release, line 145
CreateReleaseFailed(e) == e # Nil

\* release, lines 146-151: the message printed for a CreateRelease error
CreateReleaseErrMsg(e) ==
    IF e = ErrNoAccessTokenFound THEN LoginInfo ELSE MsgFailedCreate

\* fault variant: Unauthenticated is returned like any other error
CreateReleaseErrReturn_Propagates(e) == e

\* release, lines 146-151: the error returned for a CreateRelease error
CreateReleaseErrReturn(e) ==
    IF e = ErrNoAccessTokenFound THEN Nil ELSE e

\* fault variant: scanner.Err() is not checked
ScanErrReturns_Unchecked(e) == FALSE

\* release, line 167
ScanErrReturns(e) == e # Nil

\* fault variant: the defer is missing
DeferredClose_Missing(n) == n

\* release, line 161: the deferred readCloser.Close()
DeferredClose(n) == n + 1

\* fault variant: every status but "failed" counts as success
IsComplete_NotFailed(s) == s # "failed"

\* release, line 178
IsComplete(s) == s = Complete

\* release, line 188
ReleaseFailedErr(s) == "release failed: " \o s

\* release, lines 179-185
SuccessSummary(listed) ==
    <<"", MsgLiftOff, MsgEdges, MsgInstall>>
        \o (IF listed THEN <<MsgListed>> ELSE <<>>)

\* ---- the runtime manager: values and pure helpers -----------------------

ErrNotExist == "os.ErrNotExist"
ErrIO == "i/o error"

AbsentFile == [exists |-> FALSE, data |-> <<>>]
File(d) == [exists |-> TRUE, data |-> d]

\* *ProjectMeta: nil, or a record with its project id
NilMeta == [isNil |-> TRUE, ID |-> <<>>]
Meta(id) == [isNil |-> FALSE, ID |-> id]

IDChars == {"a", "\"", "\\"}
IDs == UNION {[1..n -> IDChars] : n \in 0..MaxIDLen}
Metas == {Meta(id) : id \in IDs}

NoRet == [meta |-> NilMeta, ok |-> FALSE, err |-> Nil]

\* the outcomes of a write the file system makes fail: nothing written, or
\* the file left truncated
WriteFaults == {"none", "fail", "trunc"}

\* the JSON string escaping of json.Marshal
RECURSIVE Escape(_)
Escape(str) ==
    IF str = <<>> THEN <<>>
    ELSE (IF Head(str) \in {"\"", "\\"} THEN <<"\\", Head(str)>> ELSE <<Head(str)>>)
            \o Escape(Tail(str))

\* StoreProjectMeta, line 75: json.Marshal(p)
Marshal(p) == <<"{ID:", "\"">> \o Escape(p.ID) \o <<"\"", "}">>

\* the JSON string unescaping: reads b from position i up to the closing
\* quote; [ok, str, next]
RECURSIVE Unquote(_, _, _)
Unquote(b, i, acc) ==
    IF i > Len(b) THEN [ok |-> FALSE, str |-> <<>>, next |-> i]
    ELSE IF b[i] = "\"" THEN [ok |-> TRUE, str |-> acc, next |-> i + 1]
    ELSE IF b[i] = "\\"
         THEN IF i + 1 <= Len(b) /\ b[i + 1] \in {"\"", "\\"}
              THEN Unquote(b, i + 2, Append(acc, b[i + 1]))
              ELSE [ok |-> FALSE, str |-> <<>>, next |-> i]
    ELSE Unquote(b, i + 1, Append(acc, b[i]))

\* projectMetaFromBytes: json.Unmarshal of the file's bytes; [meta, err]
projectMetaFromBytes(b) ==
    IF Len(b) < 2 \/ b[1] # "{ID:" \/ b[2] # "\""
    THEN [meta |-> NilMeta, err |-> ErrOther]
    ELSE LET u == Unquote(b, 3, <<>>)
         IN  IF u.ok /\ u.next = Len(b) /\ b[u.next] = "}"
             THEN [meta |-> Meta(u.str), err |-> Nil]
             ELSE [meta |-> NilMeta, err |-> ErrOther]

\* fault variant: the file is opened for appending
WriteFile_Append(dirExists, file, data, fault) ==
    IF ~dirExists THEN [file |-> file, err |-> ErrNotExist]
    ELSE IF fault = "fail" THEN [file |-> file, err |-> ErrIO]
    ELSE IF fault = "trunc" THEN [file |-> File(<<>>), err |-> ErrIO]
    ELSE [file |-> File(file.data \o data), err |-> Nil]

\* ioutil.WriteFile (lines 81, 83, 140, 147): creates or truncates the file
\* and writes data; fails when the directory is missing; [file, err]
WriteFile(dirExists, file, data, fault) ==
    IF ~dirExists THEN [file |-> file, err |-> ErrNotExist]
    ELSE IF fault = "fail" THEN [file |-> file, err |-> ErrIO]
    ELSE IF fault = "trunc" THEN [file |-> File(<<>>), err |-> ErrIO]
    ELSE [file |-> File(data), err |-> Nil]

\* readFile, lines 64-71; [data, err]
readFile(file, fault) ==
    IF fault THEN [data |-> <<>>, err |-> ErrIO]
    ELSE IF ~file.exists THEN [data |-> <<>>, err |-> ErrNotExist]
    ELSE [data |-> file.data, err |-> Nil]

\* os.Stat, lines 105 and 120: the error it returns
Stat(file, fault) ==
    IF fault THEN ErrIO ELSE IF ~file.exists THEN ErrNotExist ELSE Nil

SpaceReadmeNotes == <<"Don't commit this folder (.space) to git">>

\* fault variant: a failed note write aborts the store
StoreProjectMetaErr_NoteAborts(marshalErr, noteErr, metaErr) ==
    IF marshalErr # Nil THEN marshalErr
    ELSE IF noteErr # Nil THEN noteErr
    ELSE metaErr

\* StoreProjectMeta, lines 75-83: the error returned; the result of the
\* README write (line 81) is dropped
StoreProjectMetaErr(marshalErr, noteErr, metaErr) ==
    IF marshalErr # Nil THEN marshalErr ELSE metaErr

\* fault variant: every read error counts as "no metadata"
GetProjectMetaResult_AnyErrAbsent(read) ==
    IF read.err # Nil THEN [meta |-> NilMeta, ok |-> FALSE, err |-> Nil]
    ELSE LET d == projectMetaFromBytes(read.data)
         IN  [meta |-> d.meta, ok |-> d.err = Nil, err |-> d.err]

\* GetProjectMeta, lines 88-101
GetProjectMetaResult(read) ==
    IF read.err # Nil
    THEN IF read.err = ErrNotExist
         THEN [meta |-> NilMeta, ok |-> FALSE, err |-> Nil]
         ELSE [meta |-> NilMeta, ok |-> FALSE, err |-> read.err]
    ELSE LET d == projectMetaFromBytes(read.data)
         IN  IF d.err # Nil
             THEN [meta |-> NilMeta, ok |-> FALSE, err |-> d.err]
             ELSE [meta |-> d.meta, ok |-> TRUE, err |-> Nil]

\* fault variant: the os.IsNotExist test is negated
IsProjectInitializedResult_Negated(statErr) ==
    IF statErr # Nil
    THEN IF statErr # ErrNotExist
         THEN [meta |-> NilMeta, ok |-> FALSE, err |-> Nil]
         ELSE [meta |-> NilMeta, ok |-> FALSE, err |-> statErr]
    ELSE [meta |-> NilMeta, ok |-> TRUE, err |-> Nil]

\* IsProjectInitialized, lines 105-112
IsProjectInitializedResult(statErr) ==
    IF statErr # Nil
    THEN IF statErr = ErrNotExist
         THEN [meta |-> NilMeta, ok |-> FALSE, err |-> Nil]
         ELSE [meta |-> NilMeta, ok |-> FALSE, err |-> statErr]
    ELSE [meta |-> NilMeta, ok |-> TRUE, err |-> Nil]

\* the text of a .gitignore is a sequence of tokens: the pattern ".space",
\* a newline, a word character, a non-word character
Pattern == ".space"
IgnoreTokens == {Pattern, "\n", "w", "/"}
WordChars == {"w"}
IgnoreTexts == UNION {[1..n -> IgnoreTokens] : n \in 0..MaxIgnoreLen}

\* fault variant: the pattern lacks the (?m) flag
MatchString_NoMultiline(text) ==
    /\ Len(text) >= 1
    /\ text[1] = Pattern
    /\ (Len(text) = 1 \/ text[2] \notin WordChars)

\* AddSpaceToGitignore, line 134: regexp (?m)^(\.space)\b
MatchString(text) ==
    \E i \in 1..Len(text) :
        /\ text[i] = Pattern
        /\ (i = 1 \/ text[i - 1] = "\n")
        /\ (i = Len(text) \/ text[i + 1] \notin WordChars)

\* fault variant: the pattern is appended without the newline
AppendPattern_NoNewline(contents) == contents \o <<Pattern>>

\* AddSpaceToGitignore, line 139
AppendPattern(contents) == contents \o <<"\n", Pattern>>

\* fault variant: the new file starts with a newline
NewGitignore_LeadingNewline == <<"\n", Pattern>>

\* AddSpaceToGitignore, line 147
NewGitignore == <<Pattern>>

\* AddSpaceToGitignore, lines 130, 142, 149: fmt.Errorf("...: %w", err)
WrapErr(msg, e) == msg \o ": " \o e

\* the manager's variables while the release command runs
MgrAtRest ==
    /\ mgr = "none"
    /\ spaceDir = FALSE
    /\ metaFile = AbsentFile
    /\ readmeFile = AbsentFile
    /\ gitignore = AbsentFile
    /\ op = "none"
    /\ ret = NoRet
    /\ opFault = FALSE
    /\ faulted = FALSE
    /\ lastStored = NilMeta
    /\ prevGitignore = AbsentFile
    /\ adds = FALSE
    /\ addsBefore = FALSE
    /\ storeIO = [note |-> Nil, meta |-> Nil]

\* ---- initial state ------------------------------------------------------
\* "confirm" and "rid" are marked mutually exclusive (line 87); --confirm
\* may be given as --confirm=false
Init ==
    /\ pc = "start"
    /\ exit = "running"
    /\ interactive \in BOOLEAN
    /\ idChanged \in BOOLEAN
    /\ ridChanged \in BOOLEAN
    /\ confirmChanged \in BOOLEAN
    /\ ~(ridChanged /\ confirmChanged)
    /\ listedRelease \in BOOLEAN
    /\ useLatestRevision \in BOOLEAN
    /\ (~confirmChanged => useLatestRevision = FALSE)
    /\ revisionID = 0
    /\ revisions = <<>>
    /\ tags = <<>>
    /\ chooseCalls = 0
    /\ chosen = 0
    /\ revision = NilRevision
    /\ err = Nil
    /\ calls = <<>>
    /\ log = <<>>
    /\ stream = <<>>
    /\ scanned = 0
    /\ stdout = <<>>
    /\ opened = FALSE
    /\ closeCount = 0
    /\ scanErr = Nil
    /\ status = ""
    /\ relErr = Nil
    /\ fetched = FALSE
    /\ createErr = ""
    /\ resolveFailure = "none"
    /\ MgrAtRest

\* ---- Run: lines 30-76 ---------------------------------------------------

\* lines 33-36
Run_CheckInteractive ==
    /\ pc = "start"
    /\ IF NonInteractiveRejected(interactive, ridChanged, confirmChanged)
       THEN /\ log' = Append(log, MsgNonInteractive)
            /\ exit' = "exit1"
            /\ pc' = "done"
       ELSE /\ pc' = "projectID"
            /\ UNCHANGED <<log, exit>>
    /\ UNCHANGED <<mgrVars, flagVars, useLatestRevision, revisionID, selVars, calls, relVars,
                   resolveFailure>>

\* lines 46-52: runtime.GetProjectMeta either yields the stored record or
\* an error (PreRunE, line 28, has checked that the project is initialized)
Run_ResolveProjectID ==
    /\ pc = "projectID"
    /\ \E metaErr \in (IF idChanged THEN {Nil} ELSE {Nil, ErrOther}) :
          IF metaErr # Nil
          THEN exit' = "exit1" /\ pc' = "done" /\ resolveFailure' = "meta"
          ELSE exit' = exit /\ pc' = "revision" /\ UNCHANGED resolveFailure
    /\ UNCHANGED <<mgrVars, flagVars, useLatestRevision, revisionID, selVars, calls, log, relVars>>

\* lines 54-60 (and line 72 when --rid was given)
Run_ConfirmLatest ==
    /\ pc = "revision"
    /\ IF ridChanged
       THEN /\ revisionID' = -1
            /\ log' = Append(log, getCreatingReleaseMsg(listedRelease, useLatestRevision))
            /\ pc' = "release"
            /\ UNCHANGED <<exit, useLatestRevision, resolveFailure>>
       ELSE /\ UNCHANGED <<revisionID, log>>
            /\ IF confirmChanged
               THEN /\ pc' = "selectRevision"
                    /\ UNCHANGED <<exit, useLatestRevision, resolveFailure>>
               ELSE \E answer \in BOOLEAN, confirmErr \in {Nil, ErrOther} :
                       IF confirmErr # Nil
                       THEN /\ exit' = "exit1"
                            /\ pc' = "done"
                            /\ resolveFailure' = "confirm"
                            /\ UNCHANGED useLatestRevision
                       ELSE /\ useLatestRevision' = answer
                            /\ pc' = "selectRevision"
                            /\ UNCHANGED <<exit, resolveFailure>>
    /\ UNCHANGED <<mgrVars, flagVars, selVars, calls, relVars>>

\* ---- selectRevision: lines 92-134 ---------------------------------------

FetchResults ==
    {[err |-> e, Revisions |-> <<>>] : e \in {ErrNoAccessTokenFound, ErrOther}}
      \cup {[err |-> Nil, Revisions |-> rs] : rs \in RevisionLists}

\* lines 93-128, up to the call of choose.Run
selectRevision_GetRevisions ==
    /\ pc = "selectRevision"
    /\ calls' = Append(calls, "GetRevisions")
    /\ \E r \in FetchResults :
          IF r.err # Nil
          THEN /\ log' = Append(log, GetRevisionsErrMsg(r.err))
               /\ revision' = NilRevision
               /\ err' = r.err
               /\ pc' = "selected"
               /\ resolveFailure' = "fetch"
               /\ UNCHANGED <<revisions, tags, chooseCalls, fetched>>
          ELSE /\ revisions' = r.Revisions
               /\ fetched' = TRUE
               /\ IF Len(r.Revisions) = 0
                  THEN /\ log' = Append(log, MsgNoRevisions)
                       /\ revision' = NilRevision
                       /\ err' = r.err
                       /\ pc' = "selected"
                       /\ resolveFailure' = "empty"
                       /\ UNCHANGED <<tags, chooseCalls>>
                  ELSE IF useLatestRevision
                  THEN /\ revision' = LatestRevision(r.Revisions)
                       /\ err' = Nil
                       /\ pc' = "selected"
                       /\ UNCHANGED <<log, tags, chooseCalls, resolveFailure>>
                  ELSE /\ tags' = TagsOf(Window(r.Revisions))
                       /\ chooseCalls' = chooseCalls + 1
                       /\ pc' = "choose"
                       /\ UNCHANGED <<log, revision, err, resolveFailure>>
    /\ UNCHANGED <<mgrVars, flagVars, exit, useLatestRevision, revisionID, chosen, relVars>>

\* lines 125-133: choose.Run returns one of the options, or an error
selectRevision_Choose ==
    /\ pc = "choose"
    /\ \/ /\ revision' = NilRevision
          /\ err' = ErrOther
          /\ resolveFailure' = "chooser"
          /\ UNCHANGED chosen
       \/ \E i \in 1..Len(tags) :
             /\ chosen' = i
             /\ revision' = revisionMap(Window(revisions), tags[i])
             /\ err' = Nil
             /\ UNCHANGED resolveFailure
    /\ pc' = "selected"
    /\ UNCHANGED <<mgrVars, flagVars, exit, useLatestRevision, revisionID, revisions, tags,
                   chooseCalls, fetched, calls, log, relVars>>

\* Run, lines 63-72: revision.Tag on a nil revision is a nil dereference
Run_RevisionSelected ==
    /\ pc = "selected"
    /\ IF err # Nil
       THEN /\ exit' = "exit1"
            /\ pc' = "done"
            /\ UNCHANGED <<log, revisionID>>
       ELSE IF revision = NilRevision
       THEN /\ exit' = "panic"
            /\ pc' = "done"
            /\ UNCHANGED <<log, revisionID>>
       ELSE /\ log' = log \o <<MsgSelected \o revision.Tag,
                               getCreatingReleaseMsg(listedRelease, useLatestRevision)>>
            /\ revisionID' = revision.ID
            /\ pc' = "release"
            /\ UNCHANGED exit
    /\ UNCHANGED <<mgrVars, flagVars, useLatestRevision, selVars, calls, relVars, resolveFailure>>

\* ---- release: lines 136-192 ---------------------------------------------

\* lines 137-152
release_CreateRelease ==
    /\ pc = "release"
    /\ calls' = Append(calls, "CreateRelease")
    /\ \E e \in {Nil, ErrNoAccessTokenFound, ErrOther} :
          /\ createErr' = e
          /\ IF CreateReleaseFailed(e)
             THEN /\ log' = Append(log, CreateReleaseErrMsg(e))
                  /\ relErr' = CreateReleaseErrReturn(e)
                  /\ pc' = "returned"
             ELSE /\ pc' = "logs"
                  /\ UNCHANGED <<log, relErr>>
    /\ UNCHANGED <<mgrVars, flagVars, exit, useLatestRevision, revisionID, selVars,
                   stream, scanned, stdout, opened, closeCount, scanErr, status,
                   resolveFailure>>

\* lines 153-162
release_GetReleaseLogs ==
    /\ pc = "logs"
    /\ calls' = Append(calls, "GetReleaseLogs")
    /\ \/ /\ log' = Append(log, MsgLogsError)
          /\ relErr' = ErrOther
          /\ pc' = "returned"
          /\ UNCHANGED <<stream, opened>>
       \/ \E ls \in LineSeqs :
             /\ stream' = ls
             /\ opened' = TRUE
             /\ pc' = "scan"
             /\ UNCHANGED <<log, relErr>>
    /\ UNCHANGED <<mgrVars, flagVars, exit, useLatestRevision, revisionID, selVars,
                   scanned, stdout, closeCount, scanErr, status, createErr,
                   resolveFailure>>

\* lines 163-166: one iteration of the scan loop
release_ScanLine ==
    /\ pc = "scan"
    /\ scanned < Len(stream)
    /\ stdout' = Append(stdout, stream[scanned + 1])
    /\ scanned' = scanned + 1
    /\ UNCHANGED <<mgrVars, pc, flagVars, exit, useLatestRevision, revisionID, selVars, calls,
                   log, stream, opened, closeCount, scanErr, status, relErr,
                   createErr, resolveFailure>>

\* lines 163 and 167-170: Scan() returns false, at the end of the stream
\* (Err() is nil) or at a read error anywhere in it
release_ScanEnd ==
    /\ pc = "scan"
    /\ \E e \in {Nil, ErrOther} :
          /\ (e = Nil => scanned = Len(stream))
          /\ scanErr' = e
          /\ IF ScanErrReturns(e)
             THEN /\ log' = Append(log, MsgScanError)
                  /\ relErr' = e
                  /\ closeCount' = DeferredClose(closeCount)
                  /\ pc' = "returned"
             ELSE /\ pc' = "promotion"
                  /\ UNCHANGED <<log, relErr, closeCount>>
    /\ UNCHANGED <<mgrVars, flagVars, exit, useLatestRevision, revisionID, selVars, calls,
                   stream, scanned, stdout, opened, status, createErr, resolveFailure>>

\* lines 172-191
release_GetReleasePromotion ==
    /\ pc = "promotion"
    /\ calls' = Append(calls, "GetReleasePromotion")
    /\ \/ /\ log' = Append(log, MsgPromotionCheck)
          /\ relErr' = ErrOther
          /\ UNCHANGED status
       \/ \E s \in Statuses :
             /\ status' = s
             /\ IF IsComplete(s)
                THEN /\ log' = log \o SuccessSummary(listedRelease)
                     /\ relErr' = Nil
                ELSE /\ log' = Append(log, MsgReleaseFailed)
                     /\ relErr' = ReleaseFailedErr(s)
    /\ closeCount' = DeferredClose(closeCount)
    /\ pc' = "returned"
    /\ UNCHANGED <<mgrVars, flagVars, exit, useLatestRevision, revisionID, selVars,
                   stream, scanned, stdout, opened, scanErr, createErr, resolveFailure>>

\* Run, lines 73-76
Run_ReleaseReturned ==
    /\ pc = "returned"
    /\ exit' = IF relErr # Nil THEN "exit1" ELSE "exit0"
    /\ pc' = "done"
    /\ UNCHANGED <<mgrVars, flagVars, useLatestRevision, revisionID, selVars, calls, log, relVars,
                   resolveFailure>>

Next ==
    \/ Run_CheckInteractive
    \/ Run_ResolveProjectID
    \/ Run_ConfirmLatest
    \/ selectRevision_GetRevisions
    \/ selectRevision_Choose
    \/ Run_RevisionSelected
    \/ release_CreateRelease
    \/ release_GetReleaseLogs
    \/ release_ScanLine
    \/ release_ScanEnd
    \/ release_GetReleasePromotion
    \/ Run_ReleaseReturned

Spec == Init /\ [][Next]_vars

\* ---- the runtime manager: operations -------------------------------------

\* the release command's variables while the manager is exercised
ReleaseAtRest ==
    /\ pc = "manager"
    /\ exit = "running"
    /\ interactive = TRUE
    /\ idChanged = FALSE
    /\ ridChanged = FALSE
    /\ confirmChanged = FALSE
    /\ listedRelease = FALSE
    /\ useLatestRevision = FALSE
    /\ revisionID = 0
    /\ revisions = <<>>
    /\ tags = <<>>
    /\ chooseCalls = 0
    /\ chosen = 0
    /\ revision = NilRevision
    /\ err = Nil
    /\ calls = <<>>
    /\ log = <<>>
    /\ stream = <<>>
    /\ scanned = 0
    /\ stdout = <<>>
    /\ opened = FALSE
    /\ closeCount = 0
    /\ scanErr = Nil
    /\ status = ""
    /\ relErr = Nil
    /\ fetched = FALSE
    /\ createErr = ""
    /\ resolveFailure = "none"

\* a project root before the first NewManager: no metadata yet, the hidden
\* directory may or may not be there, .gitignore is absent, lacks the
\* pattern or holds it
InitMgr ==
    /\ ReleaseAtRest
    /\ mgr = "none"
    /\ spaceDir \in BOOLEAN
    /\ metaFile = AbsentFile
    /\ readmeFile = AbsentFile
    /\ gitignore \in {AbsentFile, File(<<"w">>), File(<<Pattern>>)}
    /\ op = "none"
    /\ ret = NoRet
    /\ opFault = FALSE
    /\ faulted = FALSE
    /\ lastStored = NilMeta
    /\ prevGitignore = AbsentFile
    /\ adds = FALSE
    /\ addsBefore = FALSE
    /\ storeIO = [note |-> Nil, meta |-> Nil]

\* what every operation records about itself
Returns(name, fault, r) ==
    /\ op' = name
    /\ ret' = r
    /\ opFault' = fault
    /\ faulted' = (faulted \/ fault)
    /\ addsBefore' = adds

\* NewManager, lines 34-61: Getwd when root is nil, MkdirAll when initDirs
NewManager ==
    \E rootNil, initDirs, getwdFails, mkdirFails \in BOOLEAN :
        /\ (getwdFails => rootNil)
        /\ (mkdirFails => initDirs /\ ~getwdFails)
        /\ IF getwdFails \/ mkdirFails
           THEN /\ Returns("NewManager", TRUE, [meta |-> NilMeta, ok |-> FALSE, err |-> ErrIO])
                /\ UNCHANGED <<mgr, spaceDir>>
           ELSE /\ Returns("NewManager", FALSE, [meta |-> NilMeta, ok |-> TRUE, err |-> Nil])
                /\ mgr' = "ready"
                /\ spaceDir' = (spaceDir \/ initDirs)
        /\ UNCHANGED <<metaFile, readmeFile, gitignore, lastStored, prevGitignore, adds,
                       storeIO>>
        /\ UNCHANGED vars

\* StoreProjectMeta, lines 74-84
StoreProjectMeta ==
    /\ mgr = "ready"
    /\ \E p \in Metas, noteFault \in {"none", "fail"}, metaFault \in WriteFaults :
          LET marshalled == Marshal(p)
              note == WriteFile(spaceDir, readmeFile, SpaceReadmeNotes, noteFault)
              meta == WriteFile(spaceDir, metaFile, marshalled, metaFault)
              e == StoreProjectMetaErr(Nil, note.err, meta.err)
          IN  /\ (~spaceDir => noteFault = "none" /\ metaFault = "none")
              /\ readmeFile' = note.file
              /\ metaFile' = meta.file
              /\ storeIO' = [note |-> note.err, meta |-> meta.err]
              /\ lastStored' = IF e = Nil /\ meta.err = Nil THEN p ELSE NilMeta
              /\ Returns("StoreProjectMeta", noteFault # "none" \/ metaFault # "none",
                         [meta |-> NilMeta, ok |-> e = Nil, err |-> e])
    /\ UNCHANGED <<mgr, spaceDir, gitignore, prevGitignore, adds>>
    /\ UNCHANGED vars

\* GetProjectMeta, lines 87-102
GetProjectMeta ==
    /\ mgr = "ready"
    /\ \E readFault \in BOOLEAN :
          Returns("GetProjectMeta", readFault,
                  GetProjectMetaResult(readFile(metaFile, readFault)))
    /\ UNCHANGED <<mgr, spaceDir, metaFile, readmeFile, gitignore, lastStored,
                   prevGitignore, adds, storeIO>>
    /\ UNCHANGED vars

\* IsProjectInitialized, lines 104-113
IsProjectInitialized ==
    /\ mgr = "ready"
    /\ \E statFault \in BOOLEAN :
          Returns("IsProjectInitialized", statFault,
                  IsProjectInitializedResult(Stat(metaFile, statFault)))
    /\ UNCHANGED <<mgr, spaceDir, metaFile, readmeFile, gitignore, lastStored,
                   prevGitignore, adds, storeIO>>
    /\ UNCHANGED vars

\* AddSpaceToGitignore, lines 116-152
AddSpaceToGitignore ==
    /\ mgr = "ready"
    /\ prevGitignore' = gitignore
    /\ \E statFault, readFault \in BOOLEAN, writeFault \in WriteFaults :
          LET statErr == Stat(gitignore, statFault)
              gitignoreExists == ~(statErr # Nil /\ statErr = ErrNotExist)
              read == readFile(gitignore, readFault)
              pass == MatchString(read.data)
              appended == WriteFile(TRUE, gitignore, AppendPattern(read.data), writeFault)
              created == WriteFile(TRUE, gitignore, NewGitignore, writeFault)
              fault == statFault \/ readFault \/ writeFault # "none"
              Result(e) == [meta |-> NilMeta, ok |-> e = Nil, err |-> e]
          IN  /\ (readFault => gitignoreExists)
              /\ (writeFault # "none" =>
                     IF gitignoreExists THEN read.err = Nil /\ ~pass ELSE TRUE)
              /\ IF gitignoreExists
                 THEN IF read.err # Nil
                      THEN /\ Returns("AddSpaceToGitignore", fault,
                                 Result(WrapErr("failed to append .space to .gitignore", read.err)))
                           /\ UNCHANGED <<gitignore, adds>>
                      ELSE IF pass
                      THEN /\ Returns("AddSpaceToGitignore", fault, Result(Nil))
                           /\ adds' = TRUE
                           /\ UNCHANGED gitignore
                      ELSE /\ gitignore' = appended.file
                           /\ adds' = (adds \/ appended.err = Nil)
                           /\ Returns("AddSpaceToGitignore", fault,
                                 Result(IF appended.err # Nil
                                        THEN WrapErr("failed to append .space to .gitignore", appended.err)
                                        ELSE Nil))
                 ELSE /\ gitignore' = created.file
                      /\ adds' = (adds \/ created.err = Nil)
                      /\ Returns("AddSpaceToGitignore", fault,
                            Result(IF created.err # Nil
                                   THEN WrapErr("failed to write .space to .gitignore", created.err)
                                   ELSE Nil))
    /\ UNCHANGED <<mgr, spaceDir, metaFile, readmeFile, lastStored, storeIO>>
    /\ UNCHANGED vars

NextMgr ==
    \/ NewManager
    \/ StoreProjectMeta
    \/ GetProjectMeta
    \/ IsProjectInitialized
    \/ AddSpaceToGitignore

SpecMgr == InitMgr /\ [][NextMgr]_<<vars, mgrVars>>

\* .gitignore patching alone, from every text of the bound
InitIgnore ==
    /\ ReleaseAtRest
    /\ mgr = "none"
    /\ spaceDir \in BOOLEAN
    /\ metaFile = AbsentFile
    /\ readmeFile = AbsentFile
    /\ gitignore \in {AbsentFile} \cup {File(t) : t \in IgnoreTexts}
    /\ op = "none"
    /\ ret = NoRet
    /\ opFault = FALSE
    /\ faulted = FALSE
    /\ lastStored = NilMeta
    /\ prevGitignore = AbsentFile
    /\ adds = FALSE
    /\ addsBefore = FALSE
    /\ storeIO = [note |-> Nil, meta |-> Nil]

NextIgnore ==
    \/ NewManager
    \/ AddSpaceToGitignore

SpecIgnore == InitIgnore /\ [][NextIgnore]_<<vars, mgrVars>>

\* ---- properties ---------------------------------------------------------

Range(q) == {q[i] : i \in DOMAIN q}
\* the messages that report a failure to the user
FailureMsgs ==
    {MsgNonInteractive, MsgFailedGetRevisions, MsgNoRevisions, MsgFailedCreate,
     MsgLogsError, MsgScanError, MsgPromotionCheck, MsgReleaseFailed, LoginInfo}
Called(c) == c \in Range(calls)
FailureCount == Cardinality({i \in DOMAIN log : log[i] \in FailureMsgs})
Min(a, b) == IF a < b THEN a ELSE b

\* C1: GetReleasePromotion is issued only after GetReleaseLogs returned a
\* stream and every line of it was consumed with no read error; when the
\* open fails or a read error occurs, GetReleasePromotion is never issued.
C1_PromotionOnlyAfterDrain ==
    /\ Called("GetReleasePromotion") =>
          /\ opened
          /\ scanErr = Nil
          /\ scanned = Len(stream)
          /\ stdout = stream
          /\ \E i, j \in DOMAIN calls :
                i < j /\ calls[i] = "GetReleaseLogs" /\ calls[j] = "GetReleasePromotion"
    /\ (pc \in {"logs", "scan"} => ~Called("GetReleasePromotion"))
    /\ (Called("GetReleaseLogs") /\ ~opened => ~Called("GetReleasePromotion"))
    /\ (scanErr # Nil => ~Called("GetReleasePromotion"))

C1_Witness ==
    /\ Called("GetReleasePromotion")
    /\ Len(stream) = 2
    /\ stdout = stream

\* C2: once GetReleasePromotion returned a status, release() returns nil
\* and prints the success summary iff the status is Complete; the discovery
\* line is printed only when listed; any other status makes release()
\* return an error that carries the status.
C2_TerminalClassification ==
    /\ (MsgListed \in Range(log) => listedRelease /\ status = Complete)
    /\ (MsgLiftOff \in Range(log) => status = Complete)
    /\ status # "" =>
          /\ pc \in {"returned", "done"}
          /\ (relErr = Nil <=> status = Complete)
          /\ (pc = "done" => (exit = "exit0" <=> status = Complete))
          /\ IF status = Complete
             THEN /\ Len(log) >= 4
                  /\ \E k \in DOMAIN log :
                        /\ log[k] = MsgLiftOff
                        /\ SubSeq(log, k, Len(log)) =
                              <<MsgLiftOff, MsgEdges, MsgInstall>>
                                 \o (IF listedRelease THEN <<MsgListed>> ELSE <<>>)
                  /\ MsgReleaseFailed \notin Range(log)
             ELSE /\ relErr = "release failed: " \o status
                  /\ log[Len(log)] = MsgReleaseFailed

C2_Witness ==
    /\ pc = "done"
    /\ status = "pending"
    /\ exit = "exit1"
    /\ listedRelease

\* C3: when CreateRelease returns Unauthenticated, release() opens no log
\* stream, does not query the promotion status, prints the login guidance
\* and not "Failed to create release", and returns nil.
C3_UnauthenticatedSubmit ==
    createErr = ErrNoAccessTokenFound =>
        /\ ~Called("GetReleaseLogs")
        /\ ~Called("GetReleasePromotion")
        /\ ~opened
        /\ log[Len(log)] = LoginInfo
        /\ MsgFailedCreate \notin Range(log)
        /\ relErr = Nil
        /\ pc \in {"returned", "done"}
        /\ (pc = "done" => exit = "exit0")

C3_Witness ==
    /\ createErr = ErrNoAccessTokenFound
    /\ pc = "done"
    /\ calls[Len(calls)] = "CreateRelease"

\* C4: selectRevision on an empty fetched list returns a non-nil error and
\* does not invoke the chooser.
C4_EmptyListFails ==
    fetched /\ Len(revisions) = 0 =>
        /\ err # Nil
        /\ chooseCalls = 0

\* C5: every failure while resolving the project id or the revision ends
\* the run as Failed (os.Exit(1)) without CreateRelease being called.
C5_ResolutionFailureAborts ==
    resolveFailure # "none" =>
        /\ ~Called("CreateRelease")
        /\ pc \in {"selected", "done"}
        /\ (pc = "done" => exit = "exit1")

\* C6: once GetReleaseLogs returned a handle it is closed exactly once by
\* the time release() has returned, on every exit path, never earlier and
\* never twice; without a handle nothing is closed.
C6_StreamClosedOnce ==
    /\ closeCount <= 1
    /\ (~opened => closeCount = 0)
    /\ (pc \in {"scan", "promotion"} => opened /\ closeCount = 0)
    /\ (opened /\ pc \in {"returned", "done"} => closeCount = 1)

C6_Witness ==
    /\ opened
    /\ pc = "done"
    /\ scanErr # Nil
    /\ closeCount = 1

\* C7: every run that ends in a failure has printed exactly one failure
\* message and exits non-zero; every run that ends in success has printed
\* the confirmation summary and exits zero.
C7_OneFailureMessage ==
    pc = "done" =>
        /\ (exit # "exit0" => FailureCount = 1)
        /\ (exit = "exit0" /\ createErr # ErrNoAccessTokenFound =>
               /\ FailureCount = 0
               /\ {MsgLiftOff, MsgEdges, MsgInstall} \subseteq Range(log))

\* C8: Unauthenticated from GetRevisions and from CreateRelease both print
\* the login guidance and no generic failure message, and the run ends
\* through a return or os.Exit, never in a crash.
C8_UnauthenticatedSpecialCased ==
    /\ err = ErrNoAccessTokenFound =>
          /\ log[Len(log)] = LoginInfo
          /\ Range(log) \cap (FailureMsgs \ {LoginInfo}) = {}
          /\ calls = <<"GetRevisions">>
          /\ pc \in {"selected", "done"}
          /\ exit # "panic"
    /\ createErr = ErrNoAccessTokenFound =>
          /\ log[Len(log)] = LoginInfo
          /\ Range(log) \cap (FailureMsgs \ {LoginInfo}) = {}
          /\ calls[Len(calls)] = "CreateRelease"
          /\ pc \in {"returned", "done"}
          /\ exit # "panic"

C8_Witness ==
    /\ err = ErrNoAccessTokenFound
    /\ pc = "done"
    /\ exit = "exit1"

\* C9: with useLatest set, selectRevision on a non-empty fetched list
\* returns the first element as fetched, with no error, and never invokes
\* the chooser.
C9_LatestShortcut ==
    fetched /\ useLatestRevision /\ Len(revisions) > 0 =>
        /\ revision = revisions[1]
        /\ err = Nil
        /\ chooseCalls = 0
        /\ tags = <<>>

C9_Witness ==
    /\ pc = "selected"
    /\ useLatestRevision
    /\ Len(revisions) = 3
    /\ revision.ID = 1

\* C10: with useLatest unset and n >= 1 fetched revisions, the chooser is
\* invoked exactly once, with the tags of the first min(n, 5) revisions in
\* fetched order; later revisions are never offered.
C10_WindowTruncation ==
    /\ chooseCalls <= 1
    /\ fetched /\ ~useLatestRevision /\ Len(revisions) > 0 =>
          /\ chooseCalls = 1
          /\ Len(tags) = Min(Len(revisions), 5)
          /\ \A i \in 1..Len(tags) : tags[i] = revisions[i].Tag

C10_Witness ==
    /\ pc = "choose"
    /\ chooseCalls = 1
    /\ Len(revisions) = 6
    /\ Len(tags) = 5
    /\ revisions[6].Tag # revisions[5].Tag

\* C11: with useLatest unset, whenever the chooser returns a tag,
\* selectRevision returns a non-nil revision of the offered window whose tag
\* is the chosen tag, and it is the entry the user picked, also when two
\* entries of the window share a tag.
C11_ChosenRevisionReturned ==
    pc = "selected" /\ chosen # 0 =>
        /\ err = Nil
        /\ revision # NilRevision
        /\ \E i \in 1..Len(tags) : revision = revisions[i]
        /\ revision.Tag = tags[chosen]
        /\ revision = revisions[chosen]

\* C17: in non-interactive mode with neither --rid nor --confirm given, the
\* command exits with status 1 before any remote call is issued.
C17_NonInteractiveRejected ==
    ~interactive /\ ~ridChanged /\ ~confirmChanged /\ pc # "start" =>
        /\ pc = "done"
        /\ exit = "exit1"
        /\ calls = <<>>
        /\ log = <<MsgNonInteractive>>

C17_Witness ==
    /\ ~interactive /\ ~ridChanged /\ ~confirmChanged
    /\ pc = "done"
    /\ exit = "exit1"
    /\ calls = <<>>

CallRank(c) ==
    CASE c = "GetRevisions" -> 1
      [] c = "CreateRelease" -> 2
      [] c = "GetReleaseLogs" -> 3
      [] c = "GetReleasePromotion" -> 4

\* C18: each of GetRevisions, CreateRelease, GetReleaseLogs and
\* GetReleasePromotion is called at most once per run and only in that
\* order, and after one of them failed no remote call is issued again.
C18_SingleAttempt ==
    /\ \A i, j \in DOMAIN calls : i < j => CallRank(calls[i]) < CallRank(calls[j])
    /\ (Called("GetReleaseLogs") => Called("CreateRelease"))
    /\ (Called("GetReleasePromotion") => Called("GetReleaseLogs"))
    /\ (resolveFailure = "fetch" => calls = <<"GetRevisions">>)
    /\ (createErr \notin {"", Nil} => calls[Len(calls)] = "CreateRelease")
    /\ (Called("GetReleaseLogs") /\ ~opened => calls[Len(calls)] = "GetReleaseLogs")
    /\ (scanErr # Nil => calls[Len(calls)] = "GetReleaseLogs")
    /\ (Called("GetReleasePromotion") =>
           calls[Len(calls)] = "GetReleasePromotion" /\ pc \in {"returned", "done"})

C18_Witness ==
    /\ pc = "done"
    /\ calls = <<"GetRevisions", "CreateRelease", "GetReleaseLogs", "GetReleasePromotion">>

C13_AbsenceIsNotFailure ==
    op = "GetProjectMeta" =>
        /\ (~metaFile.exists /\ ~opFault => ret.meta.isNil /\ ret.err = Nil)
        /\ (opFault => ret.meta.isNil /\ ret.err # Nil)
        /\ (metaFile.exists /\ projectMetaFromBytes(metaFile.data).err # Nil =>
               ret.meta.isNil /\ ret.err # Nil)
        /\ (ret.meta.isNil /\ ret.err = Nil => ~metaFile.exists)

C13_Witness ==
    /\ op = "GetProjectMeta"
    /\ ~spaceDir
    /\ ~metaFile.exists
    /\ ret = NoRet

\* C14: once an AddSpaceToGitignore has succeeded, every further call
\* leaves .gitignore as it found it.
C14_GitignoreIdempotent ==
    op = "AddSpaceToGitignore" /\ addsBefore =>
        /\ gitignore = prevGitignore
        /\ MatchString(gitignore.data)

C14_Witness ==
    /\ op = "AddSpaceToGitignore"
    /\ addsBefore
    /\ ret.err = Nil
    /\ gitignore.data = <<"/", "w", "\n", Pattern>>

\* C15: a successful AddSpaceToGitignore on a .gitignore without a
\* line-start match of the pattern leaves the previous content followed by
\* a newline and the pattern, which then is a line-start match.
C15_GitignoreAppend ==
    op = "AddSpaceToGitignore" /\ ret.err = Nil
      /\ prevGitignore.exists /\ ~MatchString(prevGitignore.data) =>
        /\ gitignore.exists
        /\ gitignore.data = prevGitignore.data \o <<"\n", ".space">>
        /\ SubSeq(gitignore.data, 1, Len(prevGitignore.data)) = prevGitignore.data
        /\ MatchString(gitignore.data)

C15_Witness ==
    /\ op = "AddSpaceToGitignore"
    /\ ret.err = Nil
    /\ prevGitignore = File(<<"w", Pattern>>)
    /\ gitignore = File(<<"w", Pattern, "\n", Pattern>>)

\* C16: a successful AddSpaceToGitignore on a root without .gitignore
\* creates one whose content is exactly ".space".
C16_GitignoreCreation ==
    op = "AddSpaceToGitignore" /\ ret.err = Nil /\ ~prevGitignore.exists =>
        gitignore = File(<<".space">>)

C16_Witness ==
    /\ op = "AddSpaceToGitignore"
    /\ ret.err = Nil
    /\ ~prevGitignore.exists
    /\ gitignore.exists

\* C19: the result of StoreProjectMeta is the result of the metadata write
\* alone: when the README write fails and the metadata write succeeds,
\* StoreProjectMeta returns nil and the metadata is stored.
C19_NoteBestEffort ==
    op = "StoreProjectMeta" =>
        /\ ret.err = storeIO.meta
        /\ (storeIO.note # Nil /\ storeIO.meta = Nil =>
               /\ ret.err = Nil
               /\ ~lastStored.isNil
               /\ metaFile = File(Marshal(lastStored)))

C19_Witness ==
    /\ op = "StoreProjectMeta"
    /\ storeIO = [note |-> ErrIO, meta |-> Nil]
    /\ ret.err = Nil
    /\ metaFile.exists

\* C20: without I/O faults, IsProjectInitialized returns true exactly when
\* the metadata file exists, which is exactly when GetProjectMeta returns a
\* record and exactly when a StoreProjectMeta has succeeded; NewManager and
\* AddSpaceToGitignore do not change that.
C20_InitializedIffStored ==
    ~faulted =>
        /\ (metaFile.exists <=> ~lastStored.isNil)
        /\ (op = "IsProjectInitialized" =>
               ret.err = Nil /\ (ret.ok <=> metaFile.exists))
        /\ (op = "GetProjectMeta" =>
               ret.err = Nil /\ (~ret.meta.isNil <=> metaFile.exists))

C20_Witness ==
    /\ ~faulted
    /\ op = "IsProjectInitialized"
    /\ ret.ok
    /\ adds

====
